---------------------------- MODULE Spec2Model ----------------------------
(***************************************************************************)
(* State-machine model of the candidate-tracking Sudoku solver:            *)
(* cell.py (Coordinate, Cell), move.py (Action, Move), board.py (Board)    *)
(* and sudoku.py (SudokuSolver, validateBoard).                            *)
(*                                                                         *)
(* board.py imports GenericIterable, CellContainer and House from a        *)
(* containers module whose source is not part of the tree (the file        *)
(* containers.py that is present holds an older Board/SubContainer).  The  *)
(* three containers are modelled from their documented behaviour and from  *)
(* the way board.py and sudoku.py use them: they are indexed from 1,       *)
(* squash() flattens the cell rows in row-major order, a House is          *)
(* finished when its nine cells all hold a value, and `n in house` holds   *)
(* when some cell of the house has value n.                                *)
(***************************************************************************)
EXTENDS Integers, Sequences, FiniteSets, TLC

VARIABLES
    array,      \* the input handed to Board(array)
    pc,         \* where the session is: "new", "failed", "ready", "called",
                \* "solving", "returned", "stuck", "error"
    cells,      \* Board._cells: coordinate -> Cell; << >> while there is no Board
    last,       \* the last call made and what it returned
    executed,   \* the Moves executed so far: <<MoveType, first Action's cell>>
    calls,      \* how many times next() was called since the board last changed
    run,        \* 1 for the first session on `array`, 2 for the repeated one
    firstRun    \* `executed` of the first session, kept for the second one

vars == <<array, pc, cells, last, executed, calls, run, firstRun>>

----------------------------------------------------------------------------
(* Program constants *)

\* The board is 9 x 9 and values and candidates range over 1..9.
Size == 9

\* Boxes are 3 x 3.
BoxSize == 3

\* Subsets larger than quads are not searched: min(len(unfilledCells), 5).
SubsetEnd == 5

Numbers == 1..Size

Coords == {<<r, c>> : r \in Numbers, c \in Numbers}

----------------------------------------------------------------------------
(* Small helpers on sequences and sets *)

SeqToSet(s) == {s[i] : i \in 1..Len(s)}

Min(S) == CHOOSE x \in S : \A y \in S : x <= y

RECURSIVE Flatten(_)
Flatten(ss) == IF ss = << >> THEN << >> ELSE Head(ss) \o Flatten(Tail(ss))

\* list.index(True) + 1 on a candidate list; 0 stands for the ValueError
\* that list.index raises when no entry is True.
IndexTrue(cands) ==
    IF \E n \in Numbers : cands[n]
    THEN Min({n \in Numbers : cands[n]})
    ELSE 0

----------------------------------------------------------------------------
(* cell.py: Coordinate and Cell *)

convertToBox(row, column) ==
    (((row - 1) \div BoxSize) * BoxSize) + ((column - 1) \div BoxSize) + 1

Row(co) == co[1]
Column(co) == co[2]
Box(co) == convertToBox(co[1], co[2])

\* Cell.__init__ with the upper end of the range off by one.
CellInitRaises_UpTo10(value) == ~(value = 0 \/ (0 < value /\ value <= 10))

\* Cell.__init__ accepts exactly the values 0..9.
CellInitRaises(value) == ~(value = 0 \/ (0 < value /\ value < 10))

CellInit(value) ==
    IF value = 0
    THEN [value |-> 0, candidates |-> [n \in Numbers |-> TRUE], count |-> 9]
    ELSE [value |-> value, candidates |-> [n \in Numbers |-> FALSE], count |-> 0]

\* The value setter leaving the candidates of the cell as they are.
SetValue_KeepingCandidates(cell, v) ==
    [cell EXCEPT !.value = v]

\* The value setter: no check of the cell's state or of the new value.
SetValue(cell, v) ==
    [value |-> v, candidates |-> [n \in Numbers |-> FALSE], count |-> 0]

\* Cell.__setitem__ raises for a number outside 1..9 ...
SetItemRaises(number) == number < 1 \/ number > 9

\* ... and otherwise writes the bit and moves the count by one, whatever the
\* bit was and whatever the cell's value is.
SetItem(cell, number, flag) ==
    [cell EXCEPT !.candidates[number] = flag,
                 !.count = IF flag THEN @ + 1 ELSE @ - 1]

PopCount(cell) == Cardinality({n \in Numbers : cell.candidates[n]})

----------------------------------------------------------------------------
(* board.py: houses *)

\* CellContainer.squash(): the 81 coordinates in row-major order.
Squash == [i \in 1..(Size * Size) |-> <<((i - 1) \div Size) + 1, ((i - 1) % Size) + 1>>]

RowHouse(i) == [type |-> "row", number |-> i]
ColumnHouse(i) == [type |-> "column", number |-> i]
BoxHouse(i) == [type |-> "box", number |-> i]

Rows == [i \in Numbers |-> RowHouse(i)]
Columns == [i \in Numbers |-> ColumnHouse(i)]
Boxes == [i \in Numbers |-> BoxHouse(i)]

\* _setHouses appends every cell of squash() to its row, its column and its
\* box, so each house lists its cells in row-major order.
HouseCellsOf(h) ==
    SelectSeq(Squash, LAMBDA co :
        CASE h.type = "row" -> Row(co) = h.number
          [] h.type = "column" -> Column(co) = h.number
          [] OTHER -> Box(co) = h.number)

HouseTable ==
    [t \in {"row", "column", "box"} |->
        [i \in Numbers |-> HouseCellsOf([type |-> t, number |-> i])]]

HouseCells(h) == HouseTable[h.type][h.number]

\* House.finished
Finished(b, h) == \A i \in Numbers : b[HouseCells(h)[i]].value # 0

\* House.__contains__
Contains(b, h, number) == \E i \in Numbers : b[HouseCells(h)[i]].value = number

AllHouses == Rows \o Columns \o Boxes

----------------------------------------------------------------------------
(* board.py: construction *)

None == [kind |-> "none"]
Raise(exc) == [kind |-> "raise", exc |-> exc]

\* _convertDataToCells: the checks, in the order the code makes them.
ConvertRaises(arr) ==
    \/ Len(arr) # 9
    \/ \E i \in 1..Len(arr) :
          \/ Len(arr[i]) # 9
          \/ \E j \in 1..Len(arr[i]) : CellInitRaises(arr[i][j])

\* _convertDataToCells with row and column exchanged.
_convertDataToCells_Transposed(arr) == [co \in Coords |-> CellInit(arr[co[2]][co[1]])]

_convertDataToCells(arr) == [co \in Coords |-> CellInit(arr[co[1]][co[2]])]

\* The loops of _setInitialCandidates without the test of the box.
RECURSIVE InitialCandidatesOf_NoBox(_, _, _)
InitialCandidatesOf_NoBox(b, co, number) ==
    IF number = 0 THEN b[co]
    ELSE LET cell == InitialCandidatesOf_NoBox(b, co, number - 1)
         IN  IF \/ Contains(b, RowHouse(Row(co)), number)
                \/ Contains(b, ColumnHouse(Column(co)), number)
             THEN SetItem(cell, number, FALSE)
             ELSE cell

\* The body of the loops of _setInitialCandidates for one cell: every number
\* found in the cell's row, column or box is switched off by __setitem__.
RECURSIVE InitialCandidatesOf(_, _, _)
InitialCandidatesOf(b, co, number) ==
    IF number = 0 THEN b[co]
    ELSE LET cell == InitialCandidatesOf(b, co, number - 1)
         IN  IF \/ Contains(b, RowHouse(Row(co)), number)
                \/ Contains(b, ColumnHouse(Column(co)), number)
                \/ Contains(b, BoxHouse(Box(co)), number)
             THEN SetItem(cell, number, FALSE)
             ELSE cell

_setInitialCandidates(b) == [co \in Coords |-> InitialCandidatesOf(b, co, Size)]

\* The calls `cell[number] = False` that _setInitialCandidates makes on board
\* b, as pairs of the cell and the number.
InitialToggles(b) ==
    {q \in Coords \X Numbers :
        \/ Contains(b, RowHouse(Row(q[1])), q[2])
        \/ Contains(b, ColumnHouse(Column(q[1])), q[2])
        \/ Contains(b, BoxHouse(Box(q[1])), q[2])}

\* Board.__init__
BoardInit(arr) == _setInitialCandidates(_convertDataToCells(arr))

----------------------------------------------------------------------------
(* move.py: Action and Move *)

Action(type, co, candidate) == [type |-> type, cell |-> co, candidate |-> candidate]

Move(type, actions, msg) == [kind |-> "move", type |-> type, actions |-> actions, msg |-> msg]

\* What a find function returns with single=False.
MoveList(moves) == [kind |-> "list", moves |-> moves]

\* getMoveMessage formats the keyword arguments into the template of the
\* MoveType; the message is modelled by the type and the formatted arguments.
getMoveMessage(type, args) == <<type>> \o args

\* Action.__call__ with the branches of ADD_CANDIDATE and REMOVE_CANDIDATE
\* exchanged.
ActionCall_Exchanged(b, a) ==
    CASE a.type = "SET_VALUE" ->
            [b EXCEPT ![a.cell] = SetValue(@, a.candidate)]
      [] a.type = "ADD_CANDIDATE" ->
            [b EXCEPT ![a.cell] = SetItem(@, a.candidate, FALSE)]
      [] a.type = "REMOVE_CANDIDATE" ->
            [b EXCEPT ![a.cell] = SetItem(@, a.candidate, TRUE)]
      [] OTHER -> b

\* Action.__call__ on the board; SET_CANDIDATE and unknown types do nothing.
ActionCall(b, a) ==
    CASE a.type = "SET_VALUE" ->
            [b EXCEPT ![a.cell] = SetValue(@, a.candidate)]
      [] a.type = "ADD_CANDIDATE" ->
            [b EXCEPT ![a.cell] = SetItem(@, a.candidate, TRUE)]
      [] a.type = "REMOVE_CANDIDATE" ->
            [b EXCEPT ![a.cell] = SetItem(@, a.candidate, FALSE)]
      [] OTHER -> b

ActionCallRaises(a) ==
    a.type \in {"ADD_CANDIDATE", "REMOVE_CANDIDATE"} /\ SetItemRaises(a.candidate)

\* Move.__call__: the actions in order; an action that raises ends the call
\* and leaves the effects of the actions before it.
RECURSIVE MoveCallFrom(_, _, _)
MoveCallFrom(b, actions, i) ==
    IF i > Len(actions) THEN [cells |-> b, raised |-> FALSE]
    ELSE IF ActionCallRaises(actions[i]) THEN [cells |-> b, raised |-> TRUE]
    ELSE MoveCallFrom(ActionCall(b, actions[i]), actions, i + 1)

MoveCall(b, move) == MoveCallFrom(b, move.actions, 1)

----------------------------------------------------------------------------
(* board.py: peers and move building *)

\* allEqual answering with the first element whatever the others are.
allEqual_First(list) == list[1]

allEqual(list) ==
    LET _set == SeqToSet(list)
    IN  IF Cardinality(_set) = 1 THEN CHOOSE x \in _set : TRUE ELSE 0

\* getPeerCells of a list of cells (a single Cell is wrapped in a list).
getPeerCells(cs) ==
    LET boxNumber == allEqual([i \in 1..Len(cs) |-> Box(cs[i])])
        rowNumber == allEqual([i \in 1..Len(cs) |-> Row(cs[i])])
        columnNumber == allEqual([i \in 1..Len(cs) |-> Column(cs[i])])
        key(co) == Box(co) = boxNumber \/ Row(co) = rowNumber
                   \/ Column(co) = columnNumber
    IN  SelectSeq(Squash, LAMBDA co : key(co) /\ co \notin SeqToSet(cs))

\* The key every caller passes: lambda o, v: o[v] (Cell.__getitem__).
isPossible(cell, v) == cell.candidates[v]

\* Calling the callable `key`: every caller passes this one.
KeyCall(key, cell, v) == CASE key = "isPossible" -> isPossible(cell, v)

\* removeCandidateValues building an action for every cell, without asking
\* key.
removeCandidateValues_Unfiltered(b, cs, value, key) ==
    [i \in 1..Len(cs) |-> Action("REMOVE_CANDIDATE", cs[i], value)]

\* removeCandidateValues(cells, value, key)
removeCandidateValues(b, cs, value, key) ==
    LET hit == SelectSeq(cs, LAMBDA co : KeyCall(key, b[co], value))
    IN  [i \in 1..Len(hit) |-> Action("REMOVE_CANDIDATE", hit[i], value)]

\* setCellMove without the secondary actions on the peers.
setCellMove_SetOnly(b, type, co, value, msg) ==
    Move(type, <<Action("SET_VALUE", co, value)>>, msg)

setCellMove(b, type, co, value, msg) ==
    LET peerCells == getPeerCells(<<co>>)
        secondaryActions == removeCandidateValues(b, peerCells, value, "isPossible")
        action == Action("SET_VALUE", co, value)
    IN  Move(type, <<action>> \o secondaryActions, msg)

----------------------------------------------------------------------------
(* sudoku.py: validateBoard *)

\* validateBoard chaining the rows and the columns only.
validateBoard_NoBoxes(b) ==
    \A h \in 1..Len(Rows \o Columns) :
        \A n \in Numbers :
            Cardinality({i \in Numbers : b[HouseCells((Rows \o Columns)[h])[i]].value = n}) = 1

validateBoard(b) ==
    \A h \in 1..Len(AllHouses) :
        \A n \in Numbers :
            Cardinality({i \in Numbers : b[HouseCells(AllHouses[h])[i]].value = n}) = 1

----------------------------------------------------------------------------
(* sudoku.py: how the find functions end *)

\* Every find function is a loop (or nested loops) whose iterations either
\* pass, build a Move, or raise.  `outs` lists what the iterations come to,
\* in the order the loops run: None, a Move or a raise.  With single=True
\* the function returns at the first Move and a raise reached before it
\* propagates; with single=False it appends every Move to `moves` and a
\* raise anywhere propagates.  Without a Move it returns None or the list.
LoopResult(outs, single) ==
    LET hits == SelectSeq(outs, LAMBDA o : o # None)
    IN  IF single
        THEN IF hits = << >> THEN None ELSE hits[1]
        ELSE IF \E i \in 1..Len(hits) : hits[i].kind = "raise"
        THEN Raise("ValueError")
        ELSE MoveList(hits)

----------------------------------------------------------------------------
(* sudoku.py: naked singles, hidden singles, full houses *)

\* findNakedSingles going through the cells from the last to the first.
findNakedSingles_Backwards(b, single) ==
    LET at(i) ==
            LET co == Squash[Len(Squash) + 1 - i]
                value == IndexTrue(b[co].candidates)
                message == getMoveMessage("NAKED_SINGLE", <<co, value>>)
            IN  IF b[co].count # 1 THEN None
                ELSE IF value = 0 THEN Raise("ValueError")
                ELSE setCellMove(b, "NAKED_SINGLE", co, value, message)
    IN  LoopResult([i \in 1..Len(Squash) |-> at(i)], single)

findNakedSingles(b, single) ==
    LET at(i) ==
            LET co == Squash[i]
                value == IndexTrue(b[co].candidates)
                message == getMoveMessage("NAKED_SINGLE", <<co, value>>)
            IN  IF b[co].count # 1 THEN None
                ELSE IF value = 0 THEN Raise("ValueError")
                ELSE setCellMove(b, "NAKED_SINGLE", co, value, message)
    IN  LoopResult([i \in 1..Len(Squash) |-> at(i)], single)

_findHiddenSinglesExec(b, houses, single) ==
    LET at(h, candidate) ==
            LET house == HouseCells(houses[h])
                houseCandidates == [i \in Numbers |-> b[house[i]].candidates[candidate]]
                _index == IndexTrue(houseCandidates)
                co == house[_index]
                message == getMoveMessage("HIDDEN_SINGLE", <<co, candidate>>)
            IN  IF Finished(b, houses[h]) THEN None
                ELSE IF Cardinality({i \in Numbers : houseCandidates[i]}) # 1 THEN None
                ELSE setCellMove(b, "HIDDEN_SINGLE", co, candidate, message)
    IN  LoopResult(Flatten([h \in 1..Len(houses) |->
                                [candidate \in Numbers |-> at(h, candidate)]]), single)

\* findHiddenSingles asking the columns before the rows.
findHiddenSingles_ColumnsFirst(b, single) ==
    IF single
    THEN LET rowMove == _findHiddenSinglesExec(b, Rows, TRUE)
             columnMove == _findHiddenSinglesExec(b, Columns, TRUE)
         IN  IF columnMove # None THEN columnMove
             ELSE IF rowMove # None THEN rowMove
             ELSE _findHiddenSinglesExec(b, Boxes, TRUE)
    ELSE MoveList(_findHiddenSinglesExec(b, Columns, FALSE).moves
                  \o _findHiddenSinglesExec(b, Rows, FALSE).moves
                  \o _findHiddenSinglesExec(b, Boxes, FALSE).moves)

findHiddenSingles(b, single) ==
    IF single
    THEN LET rowMove == _findHiddenSinglesExec(b, Rows, TRUE)
             columnMove == _findHiddenSinglesExec(b, Columns, TRUE)
         IN  IF rowMove # None THEN rowMove
             ELSE IF columnMove # None THEN columnMove
             ELSE _findHiddenSinglesExec(b, Boxes, TRUE)
    ELSE MoveList(_findHiddenSinglesExec(b, Rows, FALSE).moves
                  \o _findHiddenSinglesExec(b, Columns, FALSE).moves
                  \o _findHiddenSinglesExec(b, Boxes, FALSE).moves)

_findFullHousesExec(b, houses, single) ==
    LET at(h) ==
            LET unfilledHouses == SelectSeq(HouseCells(houses[h]),
                                            LAMBDA co : b[co].value = 0)
                co == unfilledHouses[1]
                value == IndexTrue(b[co].candidates)
                message == getMoveMessage("FULL_HOUSE", <<houses[h], co, value>>)
            IN  IF Len(unfilledHouses) # 1 THEN None
                ELSE IF value = 0 THEN Raise("ValueError")
                ELSE setCellMove(b, "FULL_HOUSE", co, value, message)
    IN  LoopResult([h \in 1..Len(houses) |-> at(h)], single)

\* With single=False an Exec call that raises ends findFullHouses.
findFullHouses(b, single) ==
    LET rowMoves == _findFullHousesExec(b, Rows, single)
        columnMoves == _findFullHousesExec(b, Columns, single)
        boxMoves == _findFullHousesExec(b, Boxes, single)
    IN  IF single
        THEN IF rowMoves # None THEN rowMoves
             ELSE IF columnMoves # None THEN columnMoves
             ELSE boxMoves
        ELSE IF rowMoves.kind = "raise" THEN rowMoves
             ELSE IF columnMoves.kind = "raise" THEN columnMoves
             ELSE IF boxMoves.kind = "raise" THEN boxMoves
             ELSE MoveList(rowMoves.moves \o columnMoves.moves \o boxMoves.moves)

----------------------------------------------------------------------------
(* sudoku.py: locked candidates *)

_areCandidatesLocked(cs) ==
    LET lockedBox == allEqual([i \in 1..Len(cs) |-> Box(cs[i])])
        lockedRow == allEqual([i \in 1..Len(cs) |-> Row(cs[i])])
        lockedColumn == allEqual([i \in 1..Len(cs) |-> Column(cs[i])])
    IN  IF lockedBox # 0 /\ lockedRow # 0
        THEN [kind |-> "locked", box |-> Boxes[lockedBox], line |-> Rows[lockedRow]]
        ELSE IF lockedBox # 0 /\ lockedColumn # 0
        THEN [kind |-> "locked", box |-> Boxes[lockedBox], line |-> Columns[lockedColumn]]
        ELSE None

\* _findLockedCandidatesExec taking the peers of the first candidate cell
\* instead of the peers common to all of them.
_findLockedCandidatesExec_FirstCellPeers(b, house, type) ==
    LET at(candidate) ==
            LET candidateCells == SelectSeq(HouseCells(house),
                                            LAMBDA co : b[co].candidates[candidate])
                isLocked == _areCandidatesLocked(candidateCells)
                peerCells == getPeerCells(<<candidateCells[1]>>)
                actions == removeCandidateValues(b, peerCells, candidate, "isPossible")
                lockedIn == IF type = "LOCKED_CANDIDATES1" THEN isLocked.line
                            ELSE isLocked.box
                message == getMoveMessage(type, <<candidate, lockedIn, house>>)
            IN  IF Len(candidateCells) < 2 THEN None
                ELSE IF isLocked = None THEN None
                ELSE IF peerCells = << >> THEN None
                ELSE IF actions = << >> THEN None
                ELSE Move(type, actions, message)
    IN  SelectSeq([candidate \in Numbers |-> at(candidate)], LAMBDA o : o # None)

\* The generator _findLockedCandidatesExec as the sequence of Moves it
\* yields for one house, candidates 1..9 in order.
_findLockedCandidatesExec(b, house, type) ==
    LET at(candidate) ==
            LET candidateCells == SelectSeq(HouseCells(house),
                                            LAMBDA co : b[co].candidates[candidate])
                isLocked == _areCandidatesLocked(candidateCells)
                peerCells == getPeerCells(candidateCells)
                actions == removeCandidateValues(b, peerCells, candidate, "isPossible")
                lockedIn == IF type = "LOCKED_CANDIDATES1" THEN isLocked.line
                            ELSE isLocked.box
                message == getMoveMessage(type, <<candidate, lockedIn, house>>)
            IN  IF Len(candidateCells) < 2 THEN None
                ELSE IF isLocked = None THEN None
                ELSE IF peerCells = << >> THEN None
                ELSE IF actions = << >> THEN None
                ELSE Move(type, actions, message)
    IN  SelectSeq([candidate \in Numbers |-> at(candidate)], LAMBDA o : o # None)

\* The loop both locked-candidates functions run over their houses.
findLockedCandidates(b, houses, type, single) ==
    LoopResult(Flatten([h \in 1..Len(houses) |->
                   IF Finished(b, houses[h]) THEN << >>
                   ELSE _findLockedCandidatesExec(b, houses[h], type)]), single)

findLockedCandidatesType1(b, single) ==
    findLockedCandidates(b, Boxes, "LOCKED_CANDIDATES1", single)

findLockedCandidatesType2(b, single) ==
    findLockedCandidates(b, Rows \o Columns, "LOCKED_CANDIDATES2", single)

----------------------------------------------------------------------------
(* sudoku.py: naked and hidden disjoint sets *)

_NAKED_TUPLE_TYPES == <<"None", "NAKED_PAIR", "NAKED_TRIPLE", "NAKED_QUAD">>
_LOCKED_TUPLE_TYPES == <<"None", "LOCKED_PAIR", "LOCKED_TRIPLE", "LOCKED_QUAD">>
_HIDDEN_TUPLE_TYPES == <<"None", "HIDDEN_PAIR", "HIDDEN_TRIPLE", "HIDDEN_QUAD">>

\* itertools.combinations(range(lo, n + 1), k): index tuples in
\* lexicographic order.
RECURSIVE Combinations(_, _, _)
Combinations(lo, n, k) ==
    IF k = 0 THEN << << >> >>
    ELSE IF n - lo + 1 < k THEN << >>
    ELSE LET withLo == Combinations(lo + 1, n, k - 1)
         IN  [i \in 1..Len(withLo) |-> <<lo>> \o withLo[i]]
             \o Combinations(lo + 1, n, k)

CombinationTable ==
    [n \in 0..Size |-> [k \in 2..(SubsetEnd - 1) |-> Combinations(1, n, k)]]

\* for combinationLength in range(2, min(length, 5)):
\*     for combination in itertools.combinations(items, combinationLength)
\* as one sequence of index tuples into a list of n items.
RECURSIVE CombinationScanFrom(_, _, _)
CombinationScanFrom(n, length, k) ==
    LET endRange == IF length < SubsetEnd THEN length ELSE SubsetEnd
    IN  IF k >= endRange THEN << >>
        ELSE CombinationTable[n][k] \o CombinationScanFrom(n, length, k + 1)

CombinationScanTable ==
    [n \in 0..Size |-> [length \in 0..Size |-> CombinationScanFrom(n, length, 2)]]

CombinationScan(n, length) == CombinationScanTable[n][length]

CandidateSet(cell) == {n \in Numbers : cell.candidates[n]}

\* sorted(set of numbers)
RECURSIVE Sorted(_)
Sorted(S) == IF S = {} THEN << >> ELSE <<Min(S)>> \o Sorted(S \ {Min(S)})

\* NakedSetsInHouse taking as peers the other unfilled cells of the house it
\* scans instead of the cells of getPeerCells.
NakedSetsInHouse_HousePeers(b, unfilledCells) ==
    LET scan == CombinationScan(Len(unfilledCells), Len(unfilledCells))
        combinationAt(i) == [j \in 1..Len(scan[i]) |-> unfilledCells[scan[i][j]]]
        discreteCandidates(i) ==
            UNION {CandidateSet(b[unfilledCells[scan[i][j]]]) : j \in 1..Len(scan[i])}
        actionsAt(i) ==
            LET peerCells == SelectSeq(unfilledCells,
                                       LAMBDA co : co \notin SeqToSet(combinationAt(i)))
                sortedCandidates == Sorted(discreteCandidates(i))
            IN  Flatten([j \in 1..Len(sortedCandidates) |->
                    removeCandidateValues(b, peerCells, sortedCandidates[j], "isPossible")])
        hit(i) ==
            /\ Cardinality(discreteCandidates(i)) = Len(scan[i])
            /\ getPeerCells(combinationAt(i)) # << >>
            /\ actionsAt(i) # << >>
        moveAt(i) ==
            LET combination == combinationAt(i)
                combinationLength == Len(combination)
                sortedCandidates == Sorted(discreteCandidates(i))
                moveType == IF _areCandidatesLocked(combination) # None
                            THEN _LOCKED_TUPLE_TYPES[combinationLength]
                            ELSE _NAKED_TUPLE_TYPES[combinationLength]
                message == getMoveMessage(moveType, <<sortedCandidates, combination>>)
            IN  Move(moveType, actionsAt(i), message)
        hits == SelectSeq([i \in 1..Len(scan) |-> i], hit)
    IN  [n \in 1..Len(hits) |-> moveAt(hits[n])]

\* The Moves one house contributes to findNakedDisjointSets, in the order
\* of the combination loops.
NakedSetsInHouse(b, unfilledCells) ==
    LET scan == CombinationScan(Len(unfilledCells), Len(unfilledCells))
        combinationAt(i) == [j \in 1..Len(scan[i]) |-> unfilledCells[scan[i][j]]]
        discreteCandidates(i) ==
            UNION {CandidateSet(b[unfilledCells[scan[i][j]]]) : j \in 1..Len(scan[i])}
        actionsAt(i) ==
            LET peerCells == getPeerCells(combinationAt(i))
                sortedCandidates == Sorted(discreteCandidates(i))
            IN  Flatten([j \in 1..Len(sortedCandidates) |->
                    removeCandidateValues(b, peerCells, sortedCandidates[j], "isPossible")])
        hit(i) ==
            /\ Cardinality(discreteCandidates(i)) = Len(scan[i])
            /\ getPeerCells(combinationAt(i)) # << >>
            /\ actionsAt(i) # << >>
        moveAt(i) ==
            LET combination == combinationAt(i)
                combinationLength == Len(combination)
                sortedCandidates == Sorted(discreteCandidates(i))
                moveType == IF _areCandidatesLocked(combination) # None
                            THEN _LOCKED_TUPLE_TYPES[combinationLength]
                            ELSE _NAKED_TUPLE_TYPES[combinationLength]
                message == getMoveMessage(moveType, <<sortedCandidates, combination>>)
            IN  Move(moveType, actionsAt(i), message)
        hits == SelectSeq([i \in 1..Len(scan) |-> i], hit)
    IN  [n \in 1..Len(hits) |-> moveAt(hits[n])]

findNakedDisjointSets(b, single) ==
    LET inHouse(h) ==
            LET unfilledCells == SelectSeq(HouseCells(AllHouses[h]),
                                           LAMBDA co : b[co].value = 0)
            IN  IF Finished(b, AllHouses[h]) \/ Len(unfilledCells) < 2 THEN << >>
                ELSE NakedSetsInHouse(b, unfilledCells)
    IN  LoopResult(Flatten([h \in 1..Len(AllHouses) |-> inHouse(h)]), single)

\* Cell.__hash__ hashes (candidates, count, value).  A set of Cells is
\* iterated in the order of its hash slots, which is a function of these
\* hashes and of the insertion order and of nothing else; the hash is
\* modelled by a code of the hashed triple.
CellHash(cell) ==
    LET bit(n) == IF cell.candidates[n] THEN 1 ELSE 0
    IN  (((bit(1) + 2 * bit(2) + 4 * bit(3) + 8 * bit(4) + 16 * bit(5) + 32 * bit(6)
           + 64 * bit(7) + 128 * bit(8) + 256 * bit(9)) * 32) + (cell.count + 16)) * 16
        + cell.value

\* set(inserted) as the sequence a for loop over the set visits.
RECURSIVE SetIteration(_, _)
SetIteration(b, inserted) ==
    IF inserted = << >> THEN << >>
    ELSE LET members == SeqToSet(inserted)
             least == Min({CellHash(b[co]) : co \in members})
             first == Min({i \in 1..Len(inserted) : CellHash(b[inserted[i]]) = least})
         IN  <<inserted[first]>>
             \o SetIteration(b, SelectSeq(inserted, LAMBDA co : co # inserted[first]))

\* HiddenSetsInHouse removing the values of the combination itself instead
\* of the other values.
HiddenSetsInHouse_RemovingSet(b, unfilledCells, houseCandidates) ==
    LET scan == CombinationScan(Len(houseCandidates), Len(unfilledCells))
        combinationAt(i) == [j \in 1..Len(scan[i]) |-> houseCandidates[scan[i][j]]]
        cellSet(i) ==
            {co \in SeqToSet(unfilledCells) :
                \E j \in 1..Len(scan[i]) : b[co].candidates[houseCandidates[scan[i][j]]]}
        moveAt(i) ==
            LET combination == combinationAt(i)
                combinationLength == Len(combination)
                cumulativeCells == Flatten([j \in 1..combinationLength |->
                    SelectSeq(unfilledCells,
                              LAMBDA co : b[co].candidates[combination[j]])])
                discreteCells == SetIteration(b, cumulativeCells)
                sortedCandidates == Sorted(SeqToSet(combination))
                disjointCandidates ==
                    SelectSeq(houseCandidates, LAMBDA n : n \in SeqToSet(combination))
                actions == Flatten([j \in 1..Len(disjointCandidates) |->
                    removeCandidateValues(b, discreteCells, disjointCandidates[j],
                                          "isPossible")])
                moveType == _HIDDEN_TUPLE_TYPES[combinationLength]
                message == getMoveMessage(moveType, <<sortedCandidates, discreteCells>>)
            IN  Move(moveType, actions, message)
        hit(i) ==
            /\ Cardinality(cellSet(i)) = Len(scan[i])
            /\ moveAt(i).actions # << >>
        hits == SelectSeq([i \in 1..Len(scan) |-> i], hit)
    IN  [n \in 1..Len(hits) |-> moveAt(hits[n])]

\* The Moves one house contributes to findHiddenDisjointSets.
HiddenSetsInHouse(b, unfilledCells, houseCandidates) ==
    LET scan == CombinationScan(Len(houseCandidates), Len(unfilledCells))
        combinationAt(i) == [j \in 1..Len(scan[i]) |-> houseCandidates[scan[i][j]]]
        cellSet(i) ==
            {co \in SeqToSet(unfilledCells) :
                \E j \in 1..Len(scan[i]) : b[co].candidates[houseCandidates[scan[i][j]]]}
        moveAt(i) ==
            LET combination == combinationAt(i)
                combinationLength == Len(combination)
                cumulativeCells == Flatten([j \in 1..combinationLength |->
                    SelectSeq(unfilledCells,
                              LAMBDA co : b[co].candidates[combination[j]])])
                discreteCells == SetIteration(b, cumulativeCells)
                sortedCandidates == Sorted(SeqToSet(combination))
                disjointCandidates ==
                    SelectSeq(houseCandidates, LAMBDA n : n \notin SeqToSet(combination))
                actions == Flatten([j \in 1..Len(disjointCandidates) |->
                    removeCandidateValues(b, discreteCells, disjointCandidates[j],
                                          "isPossible")])
                moveType == _HIDDEN_TUPLE_TYPES[combinationLength]
                message == getMoveMessage(moveType, <<sortedCandidates, discreteCells>>)
            IN  Move(moveType, actions, message)
        hit(i) ==
            /\ Cardinality(cellSet(i)) = Len(scan[i])
            /\ moveAt(i).actions # << >>
        hits == SelectSeq([i \in 1..Len(scan) |-> i], hit)
    IN  [n \in 1..Len(hits) |-> moveAt(hits[n])]

findHiddenDisjointSets(b, single) ==
    LET inHouse(h) ==
            LET house == HouseCells(AllHouses[h])
                unfilledCells == SelectSeq(house, LAMBDA co : b[co].value = 0)
                \* list(set(range(1, 10)) ^ set(values)): small ints, ascending
                houseCandidates ==
                    Sorted(Numbers \ {b[house[i]].value : i \in Numbers})
            IN  IF Finished(b, AllHouses[h]) \/ Len(unfilledCells) < 2 THEN << >>
                ELSE HiddenSetsInHouse(b, unfilledCells, houseCandidates)
    IN  LoopResult(Flatten([h \in 1..Len(AllHouses) |-> inHouse(h)]), single)

----------------------------------------------------------------------------
(* sudoku.py: the solver *)

\* The execution order with hidden singles tried before naked singles.
_executionOrder_HiddenSinglesFirst ==
    <<"findHiddenSingles", "findNakedSingles", "findFullHouses",
      "findLockedCandidatesType1", "findLockedCandidatesType2",
      "findNakedDisjointSets", "findHiddenDisjointSets">>

\* The order with the full houses tried before the singles.
_executionOrder_FullHousesFirst ==
    <<"findFullHouses", "findNakedSingles", "findHiddenSingles",
      "findLockedCandidatesType1", "findLockedCandidatesType2",
      "findNakedDisjointSets", "findHiddenDisjointSets">>

_executionOrder ==
    <<"findNakedSingles", "findHiddenSingles", "findFullHouses",
      "findLockedCandidatesType1", "findLockedCandidatesType2",
      "findNakedDisjointSets", "findHiddenDisjointSets">>

\* Calling the bound method `name` of the solver.
Find(b, name, single) ==
    CASE name = "findNakedSingles" -> findNakedSingles(b, single)
      [] name = "findHiddenSingles" -> findHiddenSingles(b, single)
      [] name = "findFullHouses" -> findFullHouses(b, single)
      [] name = "findLockedCandidatesType1" -> findLockedCandidatesType1(b, single)
      [] name = "findLockedCandidatesType2" -> findLockedCandidatesType2(b, single)
      [] name = "findNakedDisjointSets" -> findNakedDisjointSets(b, single)
      [] name = "findHiddenDisjointSets" -> findHiddenDisjointSets(b, single)

StopIteration == [kind |-> "stop"]

\* One iteration of the loop of __next__: a truthy `move` is returned (and
\* a raise propagates); otherwise the loop goes on with the `rest`.
ReturnIfTruthy(move, rest) == IF move # None THEN move ELSE rest

\* The loop of __next__ from the i-th strategy on; falling off the loop
\* returns None.
RECURSIVE nextFrom(_, _, _)
nextFrom(b, order, i) ==
    IF i > Len(order) THEN None
    ELSE ReturnIfTruthy(Find(b, order[i], TRUE), nextFrom(b, order, i + 1))

\* next(solver) ending the iteration as soon as no cell is left
\* unresolved, whatever the houses hold.
__next___StoppingWhenFilled(b) ==
    IF \A co \in Coords : b[co].value # 0
    THEN StopIteration
    ELSE nextFrom(b, _executionOrder, 1)

__next__(b) ==
    IF validateBoard(b) THEN StopIteration ELSE nextFrom(b, _executionOrder, 1)

\* itertools.chain.from_iterable(moveLists) as a list.
RECURSIVE chain(_)
chain(lists) ==
    IF lists = << >> THEN << >> ELSE lists[1].moves \o chain(Tail(lists))

\* findCurrentMoves(): every strategy of `order` is called with single=False
\* and the lists are chained; the first call that raises ends it.
findCurrentMoves(b, order) ==
    LET moveLists == [i \in 1..Len(order) |-> Find(b, order[i], FALSE)]
        raised == SelectSeq(moveLists, LAMBDA l : l.kind = "raise")
    IN  IF raised # << >> THEN raised[1] ELSE MoveList(chain(moveLists))

----------------------------------------------------------------------------
(* Input arrays *)

\* solved by naked singles alone
Puzzle1 ==
    <<<<2, 6, 8, 1, 7, 9, 4, 3, 0>>,
      <<3, 4, 5, 2, 8, 6, 9, 1, 7>>,
      <<1, 9, 7, 3, 5, 4, 6, 2, 8>>,
      <<6, 8, 3, 9, 2, 7, 5, 4, 0>>,
      <<9, 7, 2, 4, 1, 5, 8, 6, 0>>,
      <<4, 5, 0, 6, 3, 0, 0, 9, 0>>,
      <<8, 3, 4, 7, 6, 2, 1, 5, 9>>,
      <<5, 1, 9, 8, 4, 3, 2, 7, 6>>,
      <<0, 2, 6, 5, 9, 1, 3, 8, 4>>>>

\* no repeated value, but R1C9 is left without a candidate
Puzzle2 ==
    <<<<1, 2, 3, 4, 5, 6, 7, 8, 0>>,
      <<0, 0, 0, 0, 0, 0, 0, 0, 9>>,
      <<0, 0, 0, 0, 0, 0, 0, 0, 0>>,
      <<0, 0, 0, 0, 0, 0, 0, 0, 0>>,
      <<0, 0, 0, 0, 0, 0, 0, 0, 0>>,
      <<0, 0, 0, 0, 0, 0, 0, 0, 0>>,
      <<0, 0, 0, 0, 0, 0, 0, 0, 0>>,
      <<0, 0, 0, 0, 0, 0, 0, 0, 0>>,
      <<0, 0, 0, 0, 0, 0, 0, 0, 0>>>>

\* a grid that is already solved
Puzzle3 ==
    <<<<2, 6, 8, 1, 7, 9, 4, 3, 5>>,
      <<3, 4, 5, 2, 8, 6, 9, 1, 7>>,
      <<1, 9, 7, 3, 5, 4, 6, 2, 8>>,
      <<6, 8, 3, 9, 2, 7, 5, 4, 1>>,
      <<9, 7, 2, 4, 1, 5, 8, 6, 3>>,
      <<4, 5, 1, 6, 3, 8, 7, 9, 2>>,
      <<8, 3, 4, 7, 6, 2, 1, 5, 9>>,
      <<5, 1, 9, 8, 4, 3, 2, 7, 6>>,
      <<7, 2, 6, 5, 9, 1, 3, 8, 4>>>>

\* hidden single, locked candidates 1, locked pair and naked triple, then stuck
Puzzle4 ==
    <<<<0, 0, 0, 6, 7, 0, 0, 0, 0>>,
      <<5, 9, 0, 0, 1, 0, 0, 0, 0>>,
      <<0, 7, 0, 0, 9, 5, 0, 0, 0>>,
      <<0, 8, 7, 0, 0, 0, 0, 0, 5>>,
      <<0, 0, 0, 1, 0, 0, 4, 0, 0>>,
      <<2, 0, 0, 7, 0, 0, 6, 0, 0>>,
      <<0, 0, 0, 0, 0, 0, 9, 0, 0>>,
      <<0, 6, 0, 0, 2, 0, 0, 0, 0>>,
      <<0, 0, 3, 5, 0, 9, 0, 0, 2>>>>

\* locked candidates 1 and a naked pair, then stuck
Puzzle5 ==
    <<<<0, 9, 0, 0, 4, 0, 6, 0, 1>>,
      <<6, 0, 0, 0, 0, 0, 0, 8, 0>>,
      <<0, 0, 8, 0, 0, 0, 0, 7, 0>>,
      <<0, 2, 1, 0, 6, 0, 8, 4, 3>>,
      <<7, 0, 0, 0, 3, 4, 0, 0, 0>>,
      <<0, 0, 0, 0, 0, 0, 0, 0, 0>>,
      <<0, 0, 0, 0, 8, 2, 0, 0, 5>>,
      <<1, 0, 2, 0, 0, 0, 0, 0, 0>>,
      <<0, 5, 6, 0, 0, 0, 0, 0, 0>>>>

\* locked triple, then stuck
Puzzle6 ==
    <<<<0, 0, 9, 0, 0, 0, 1, 0, 0>>,
      <<7, 6, 0, 9, 3, 0, 0, 0, 0>>,
      <<0, 0, 8, 0, 0, 7, 9, 0, 2>>,
      <<6, 0, 0, 0, 1, 0, 2, 0, 0>>,
      <<4, 0, 0, 0, 0, 0, 0, 0, 0>>,
      <<0, 0, 0, 2, 9, 4, 0, 0, 6>>,
      <<9, 7, 0, 0, 2, 8, 0, 5, 0>>,
      <<0, 0, 0, 3, 7, 0, 4, 0, 8>>,
      <<0, 0, 0, 6, 0, 0, 0, 0, 0>>>>

\* locked candidates 1 and 2 and a naked quad, then stuck
Puzzle7 ==
    <<<<6, 0, 0, 0, 0, 0, 5, 0, 0>>,
      <<0, 0, 0, 0, 0, 0, 0, 1, 7>>,
      <<5, 0, 0, 0, 7, 1, 0, 0, 9>>,
      <<0, 0, 0, 0, 0, 0, 0, 0, 0>>,
      <<0, 9, 0, 4, 0, 2, 1, 7, 0>>,
      <<0, 2, 0, 0, 0, 7, 3, 9, 0>>,
      <<0, 0, 0, 7, 0, 0, 9, 0, 1>>,
      <<9, 0, 0, 0, 3, 0, 0, 0, 0>>,
      <<7, 0, 4, 0, 0, 6, 0, 8, 3>>>>

\* hidden pair and hidden triple, then stuck
Puzzle8 ==
    <<<<3, 0, 0, 0, 0, 0, 0, 0, 0>>,
      <<0, 1, 0, 0, 0, 0, 5, 6, 7>>,
      <<0, 0, 0, 8, 0, 0, 9, 0, 3>>,
      <<5, 8, 0, 2, 0, 1, 0, 0, 0>>,
      <<0, 0, 0, 0, 0, 6, 1, 0, 0>>,
      <<0, 3, 0, 0, 0, 4, 0, 0, 0>>,
      <<0, 0, 0, 0, 0, 0, 0, 0, 0>>,
      <<0, 5, 0, 0, 0, 0, 0, 0, 1>>,
      <<1, 9, 3, 0, 5, 7, 0, 2, 0>>>>

\* the value 2 twice in row 1 and in column 9
Puzzle9 ==
    <<<<2, 6, 8, 1, 7, 9, 4, 3, 2>>,
      <<3, 4, 5, 2, 8, 6, 9, 1, 7>>,
      <<1, 9, 7, 3, 5, 4, 6, 2, 8>>,
      <<6, 8, 3, 9, 2, 7, 5, 4, 0>>,
      <<9, 7, 2, 4, 1, 5, 8, 6, 0>>,
      <<4, 5, 0, 6, 3, 0, 0, 9, 0>>,
      <<8, 3, 4, 7, 6, 2, 1, 5, 9>>,
      <<5, 1, 9, 8, 4, 3, 2, 7, 6>>,
      <<0, 2, 6, 5, 9, 1, 3, 8, 4>>>>

\* solved with naked singles, hidden singles and locked candidates 1
Puzzle10 ==
    <<<<6, 9, 1, 0, 0, 8, 2, 0, 0>>,
      <<0, 0, 0, 5, 0, 0, 0, 0, 6>>,
      <<5, 0, 0, 0, 0, 0, 8, 7, 0>>,
      <<0, 6, 9, 0, 0, 7, 0, 0, 0>>,
      <<0, 5, 0, 8, 0, 9, 7, 3, 2>>,
      <<2, 3, 7, 1, 5, 0, 0, 6, 8>>,
      <<0, 0, 6, 0, 0, 3, 0, 0, 9>>,
      <<0, 1, 5, 0, 0, 6, 0, 2, 0>>,
      <<0, 2, 0, 9, 1, 0, 6, 0, 7>>>>

\* every cell filled, every row and column complete, no box complete
Puzzle11 ==
    [r \in 1..Size |-> [c \in 1..Size |-> ((r + c - 2) % Size) + 1]]

\* solved with naked and hidden singles
Puzzle12 ==
    <<<<4, 0, 0, 9, 0, 0, 0, 0, 7>>,
      <<0, 0, 8, 0, 4, 3, 9, 0, 0>>,
      <<6, 0, 0, 8, 0, 0, 0, 4, 3>>,
      <<2, 4, 0, 0, 0, 6, 0, 8, 0>>,
      <<8, 0, 3, 1, 0, 0, 7, 9, 6>>,
      <<9, 0, 0, 3, 8, 0, 0, 0, 4>>,
      <<3, 8, 4, 6, 1, 2, 0, 7, 9>>,
      <<7, 0, 5, 0, 3, 8, 0, 0, 0>>,
      <<0, 2, 6, 0, 0, 0, 4, 3, 0>>>>

Puzzles ==
    <<Puzzle1, Puzzle2, Puzzle3, Puzzle4, Puzzle5, Puzzle6, Puzzle10, Puzzle8,
      Puzzle9, Puzzle7, Puzzle11, Puzzle12>>

\* How many of the arrays of Puzzles the sessions are started on.
NumPuzzles == 11

\* How many of them the sessions that call single Board and solver methods
\* are started on.
ProbePuzzles == 7

\* Ways an array can be ill-formed for _convertDataToCells and Cell.__init__.
Malformations ==
    {"none", "no rows", "8 rows", "10 rows", "row of 8", "row of 10",
     "entry 10", "entry -1"}

Malform(arr, how) ==
    CASE how = "none" -> arr
      [] how = "no rows" -> << >>
      [] how = "8 rows" -> SubSeq(arr, 1, 8)
      [] how = "10 rows" -> Append(arr, arr[1])
      [] how = "row of 8" -> [arr EXCEPT ![5] = SubSeq(@, 1, 8)]
      [] how = "row of 10" -> [arr EXCEPT ![5] = Append(@, 0)]
      [] how = "entry 10" -> [arr EXCEPT ![9][9] = 10]
      [] how = "entry -1" -> [arr EXCEPT ![1][1] = -1]

Inputs == {Malform(Puzzles[i], how) : i \in 1..NumPuzzles, how \in Malformations}

ProbeInputs == {Puzzles[i] : i \in 1..ProbePuzzles}

\* How often next() is called in a row without executing the Move.
MaxCalls == 2

\* getPeerCells and setCellMove are called on the cells of the first
\* ProbeSpan rows and columns, getPeerCells on lists of up to MaxGroup cells.
ProbeSpan == 4

MaxGroup == 3

\* The value setter and __setitem__ of a cell are called with numbers from
\* CellArgSpan below 1 to CellArgSpan above 9.
CellArgSpan == 1

CellArgs == (1 - CellArgSpan)..(Size + CellArgSpan)

ProbeCells == {co \in Coords : Row(co) <= ProbeSpan /\ Column(co) <= ProbeSpan}

\* Lists of k distinct cells of ProbeCells in row-major order.
RECURSIVE GroupsOfLen(_)
GroupsOfLen(k) ==
    IF k = 0 THEN {<< >>}
    ELSE LET follows(g, co) ==
                 \/ g = << >>
                 \/ Row(g[Len(g)]) < Row(co)
                 \/ Row(g[Len(g)]) = Row(co) /\ Column(g[Len(g)]) < Column(co)
         IN  {Append(q[1], q[2]) :
                 q \in {r \in GroupsOfLen(k - 1) \X ProbeCells : follows(r[1], r[2])}}

Groups == UNION {GroupsOfLen(k) : k \in 1..MaxGroup}

----------------------------------------------------------------------------
(* The session: Board(array), then next()/move() by hand or solve() *)

NoCall == [op |-> "none", args |-> << >>, ret |-> None]

Call(op, args, ret) == [op |-> op, args |-> args, ret |-> ret]

Start(inputs) ==
    /\ array \in inputs
    /\ pc = "new"
    /\ cells = << >>
    /\ last = NoCall
    /\ executed = << >>
    /\ calls = 0
    /\ run = 1
    /\ firstRun = << >>

Init == Start(Inputs)

\* Board(array): the exception of a refused array leaves no Board behind.
Construct ==
    /\ pc = "new"
    /\ IF ConvertRaises(array)
       THEN /\ pc' = "failed"
            /\ cells' = << >>
            /\ last' = Call("Board", << >>, Raise("ValueError"))
       ELSE /\ pc' = "ready"
            /\ cells' = BoardInit(array)
            /\ last' = Call("Board", << >>, None)
    /\ UNCHANGED <<array, executed, calls, run, firstRun>>

\* A call of `op` that leaves board r.cells and returns r.ret.
Returns(op, args, r) ==
    /\ cells' = r.cells
    /\ last' = Call(op, args, r.ret)

\* next(solver) executing the Move it has found before returning it.
NextResult_Executing(b) ==
    [cells |-> IF __next__(b).kind = "move" THEN MoveCall(b, __next__(b)).cells ELSE b,
     ret |-> __next__(b)]

\* next(solver): the board the call leaves and what it returns.
NextResult(b) == [cells |-> b, ret |-> __next__(b)]

\* What a session records of an executed Move.
Executed(move) == <<move.type, move.actions[1].cell>>

NextMove ==
    /\ pc = "ready"
    /\ run = 1
    /\ calls < MaxCalls
    /\ Returns("next", << >>, NextResult(cells))
    /\ calls' = calls + 1
    /\ UNCHANGED <<array, pc, executed, run, firstRun>>

Moved(done) ==
    /\ cells' = done.cells
    /\ pc' = IF done.raised THEN "error" ELSE "ready"
    /\ last' = Call("move", << >>, IF done.raised THEN Raise("ValueError") ELSE None)

\* move(): the caller executes the Move that next() has just returned.
ExecuteMove ==
    /\ pc = "ready"
    /\ last.op = "next"
    /\ last.ret.kind = "move"
    /\ Moved(MoveCall(cells, last.ret))
    /\ executed' = Append(executed, Executed(last.ret))
    /\ calls' = 0
    /\ UNCHANGED <<array, run, firstRun>>

\* solve() is entered ...
Solve ==
    /\ pc = "ready"
    /\ pc' = "solving"
    /\ last' = Call("solve", << >>, None)
    /\ calls' = 0
    /\ UNCHANGED <<array, cells, executed, run, firstRun>>

\* ... and runs one iteration of `for move in self` per step: StopIteration
\* ends the loop and solve returns validateBoard; a Move is executed; None
\* raises NoMovesFound; an exception of __next__ leaves solve.
SolveIteration(r, done) ==
    CASE r.ret.kind = "stop" ->
            /\ pc' = "returned"
            /\ cells' = r.cells
            /\ last' = Call("solve", << >>, validateBoard(r.cells))
            /\ executed' = executed
      [] r.ret.kind = "move" ->
            /\ pc' = IF done.raised THEN "error" ELSE "solving"
            /\ cells' = done.cells
            /\ last' = Call("solve", << >>,
                            IF done.raised THEN Raise("ValueError") ELSE None)
            /\ executed' = Append(executed, Executed(r.ret))
      [] r.ret.kind = "none" ->
            /\ pc' = "stuck"
            /\ cells' = r.cells
            /\ last' = Call("solve", << >>, Raise("NoMovesFound"))
            /\ executed' = executed
      [] OTHER ->
            /\ pc' = "error"
            /\ cells' = r.cells
            /\ last' = Call("solve", << >>, r.ret)
            /\ executed' = executed

\* The loop of solve() forgetting to execute the Move it was given.
SolveLoop_NotExecuting(r) == SolveIteration(r, [cells |-> r.cells, raised |-> FALSE])

\* `for move in self: self._executeMove(move)`
SolveLoop(r) == SolveIteration(r, MoveCall(r.cells, r.ret))

SolveStep ==
    /\ pc = "solving"
    /\ SolveLoop(NextResult(cells))
    /\ UNCHANGED <<array, calls, run, firstRun>>

\* A second, independent session on the same array: a new Board and solve().
Restart ==
    /\ pc \in {"returned", "stuck", "error"}
    /\ run = 1
    /\ run' = 2
    /\ firstRun' = executed
    /\ pc' = "new"
    /\ cells' = << >>
    /\ last' = NoCall
    /\ executed' = << >>
    /\ calls' = 0
    /\ UNCHANGED array

Next ==
    \/ Construct
    \/ NextMove
    \/ ExecuteMove
    \/ Solve
    \/ SolveStep
    \/ Restart

Spec == Init /\ [][Next]_vars

----------------------------------------------------------------------------
(* Sessions that call single methods of the Board and of the solver *)

\* The call has returned; the session goes on.
Return ==
    /\ pc = "called"
    /\ pc' = "ready"
    /\ last' = NoCall
    /\ UNCHANGED <<array, cells, executed, calls, run, firstRun>>

\* board.getPeerCells(cells)
GetPeerCells ==
    /\ pc = "ready"
    /\ \E group \in Groups :
          last' = Call("getPeerCells", <<group>>, getPeerCells(group))
    /\ pc' = "called"
    /\ UNCHANGED <<array, cells, executed, calls, run, firstRun>>

\* setCellMove executing the Move it has built.
SetCellMoveResult_Executing(b, type, co, value, msg) ==
    [cells |-> MoveCall(b, setCellMove(b, type, co, value, msg)).cells,
     ret |-> setCellMove(b, type, co, value, msg)]

\* board.setCellMove(type, coordinate, value, msg): the board the call leaves
\* and the Move it returns.
SetCellMoveResult(b, type, co, value, msg) ==
    [cells |-> b, ret |-> setCellMove(b, type, co, value, msg)]

SetCellMove ==
    /\ pc = "ready"
    /\ \E co \in ProbeCells, value \in Numbers :
          Returns("setCellMove", <<"GENERAL", co, value, << >>>>,
                  SetCellMoveResult(cells, "GENERAL", co, value, << >>))
    /\ pc' = "called"
    /\ UNCHANGED <<array, executed, calls, run, firstRun>>

\* A find function executing the Move (with single=False, the first of
\* the Moves) it has found.
FindResult_Executing(b, name, single) ==
    [cells |-> CASE Find(b, name, single).kind = "move" ->
                        MoveCall(b, Find(b, name, single)).cells
                 [] Find(b, name, single).kind = "list"
                    /\ Find(b, name, single).moves # << >> ->
                        MoveCall(b, Find(b, name, single).moves[1]).cells
                 [] OTHER -> b,
     ret |-> Find(b, name, single)]

\* solver.findX(single): the board the call leaves and what it returns.
FindResult(b, name, single) == [cells |-> b, ret |-> Find(b, name, single)]

FindMoves ==
    /\ pc = "ready"
    /\ \E i \in 1..Len(_executionOrder), single \in BOOLEAN :
          Returns("find", <<_executionOrder[i], single>>,
                  FindResult(cells, _executionOrder[i], single))
    /\ pc' = "called"
    /\ UNCHANGED <<array, executed, calls, run, firstRun>>

\* solver.findCurrentMoves(): the board the call leaves and what it returns.
FindCurrentResult(b) == [cells |-> b, ret |-> findCurrentMoves(b, _executionOrder)]

FindCurrentMoves ==
    /\ pc = "ready"
    /\ Returns("findCurrentMoves", << >>, FindCurrentResult(cells))
    /\ pc' = "called"
    /\ UNCHANGED <<array, executed, calls, run, firstRun>>

\* getPeerCells reads coordinates only: one board is enough to call it on.
InitPeers == Start({Puzzle1})

NextPeers == Construct \/ GetPeerCells \/ Return

SpecPeers == InitPeers /\ [][NextPeers]_vars

InitProbe == Start(ProbeInputs)

NextSetCell == Construct \/ NextMove \/ ExecuteMove \/ SetCellMove \/ Return

SpecSetCell == InitProbe /\ [][NextSetCell]_vars

NextFind == Construct \/ NextMove \/ ExecuteMove \/ FindMoves \/ Return

SpecFind == InitProbe /\ [][NextFind]_vars

\* Sessions calling everything that produces Moves: next(), the find
\* functions, findCurrentMoves and setCellMove.
NextMoves ==
    \/ Construct \/ NextMove \/ ExecuteMove \/ Return
    \/ FindMoves \/ FindCurrentMoves \/ SetCellMove

SpecMoves == InitProbe /\ [][NextMoves]_vars

\* Action(SET_VALUE, cell, v)(), i.e. cell.value = v, on a cell of the board.
CellSetValue ==
    /\ pc = "ready"
    /\ \E co \in ProbeCells, v \in CellArgs :
          /\ cells' = ActionCall(cells, Action("SET_VALUE", co, v))
          /\ last' = Call("setValue", <<co, v>>,
                          IF ActionCallRaises(Action("SET_VALUE", co, v))
                          THEN Raise("ValueError") ELSE None)
    /\ pc' = "called"
    /\ UNCHANGED <<array, executed, calls, run, firstRun>>

\* cell[number] = flag on a cell of the board.
CellSetItem ==
    /\ pc = "ready"
    /\ \E co \in ProbeCells, number \in CellArgs, flag \in BOOLEAN :
          IF SetItemRaises(number)
          THEN /\ cells' = cells
               /\ last' = Call("setItem", <<co, number, flag>>, Raise("ValueError"))
          ELSE /\ cells' = [cells EXCEPT ![co] = SetItem(@, number, flag)]
               /\ last' = Call("setItem", <<co, number, flag>>, None)
    /\ pc' = "called"
    /\ UNCHANGED <<array, executed, calls, run, firstRun>>

NextCell == Construct \/ NextMove \/ ExecuteMove \/ CellSetValue \/ CellSetItem

SpecCell == InitProbe /\ [][NextCell]_vars

----------------------------------------------------------------------------
(* Vocabulary of the properties *)

\* A Board has been constructed (and not been refused).
BoardExists == pc \in {"ready", "called", "solving", "returned", "stuck", "error"}

\* The state right after Board(array) has accepted the array.
Constructed == pc = "ready" /\ last.op = "Board"

\* solve() is running or has ended.
InSolve == pc \in {"solving", "returned", "stuck", "error"}

SameHouse(c, d) == Row(c) = Row(d) \/ Column(c) = Column(d) \/ Box(c) = Box(d)

\* No house holds a digit twice: over a board ...
NoDuplicates(b) ==
    \A c \in Coords, d \in Coords :
        (c # d /\ SameHouse(c, d) /\ b[c].value # 0) => b[c].value # b[d].value

\* ... and over a 9x9 array.
NoDuplicatesInArray(arr) ==
    \A c \in Coords, d \in Coords :
        (c # d /\ SameHouse(c, d) /\ arr[c[1]][c[2]] # 0)
            => arr[c[1]][c[2]] # arr[d[1]][d[2]]

\* 9 rows of 9 entries, each 0..9.
WellFormed(arr) ==
    /\ Len(arr) = 9
    /\ \A i \in 1..Len(arr) :
          /\ Len(arr[i]) = 9
          /\ \A j \in 1..Len(arr[i]) : arr[i][j] \in 0..9

\* The digit is the value of a cell in the row, column or box of co.
InAHouseOf(b, co, v) == \E d \in Coords : SameHouse(co, d) /\ b[d].value = v

----------------------------------------------------------------------------
(* C1 *)

\* C1: in every cell of a Board, given cells included: a resolved cell
\* (value # 0) has count 0 and no candidate bit set, and an unresolved cell
\* (value = 0) has a count equal to the number of its candidate bits.
C1_CellInvariant ==
    BoardExists =>
        \A co \in Coords :
            /\ cells[co].value # 0 =>
                  /\ cells[co].count = 0
                  /\ \A n \in Numbers : ~cells[co].candidates[n]
            /\ cells[co].value = 0 => cells[co].count = PopCount(cells[co])

----------------------------------------------------------------------------
(* C2 *)

\* C2: while and after solve() runs on a Board constructed from an array
\* without a digit twice in a house, after every Move it has executed no
\* row, column or box holds a digit twice among its resolved cells.
C2_SolveKeepsHousesUnique ==
    (InSolve /\ NoDuplicatesInArray(array)) => NoDuplicates(cells)

\* solve() has executed naked and hidden singles on such a Board.
C2_Witness ==
    /\ InSolve
    /\ NoDuplicatesInArray(array)
    /\ \E i \in 1..Len(executed) : executed[i][1] = "NAKED_SINGLE"
    /\ \E i \in 1..Len(executed) : executed[i][1] = "HIDDEN_SINGLE"
    /\ NoDuplicates(cells)

----------------------------------------------------------------------------
(* C3 *)

\* C3 as stated: every Board that construction accepts has, right after
\* construction, no digit twice among the resolved cells of a house.
C3_AcceptedBoardUnique == Constructed => NoDuplicates(cells)

\* C3 amended: construction checks shape and range only and keeps every
\* entry of the array as the value of its cell, so the accepted Board is
\* free of duplicates exactly when the array is.
C3_AcceptedBoardKeepsArray ==
    Constructed =>
        /\ \A co \in Coords : cells[co].value = array[co[1]][co[2]]
        /\ NoDuplicates(cells) <=> NoDuplicatesInArray(array)

\* An array with givens and without duplicates has been accepted.
C3_Witness ==
    /\ Constructed
    /\ NoDuplicatesInArray(array)
    /\ NoDuplicates(cells)
    /\ \E co \in Coords : cells[co].value # 0
    /\ \E co \in Coords : cells[co].value # array[co[2]][co[1]]

----------------------------------------------------------------------------
(* C4 *)

\* C4: Board(array) fails, leaving no Board, exactly when the array has not
\* 9 rows, or a row has not 9 entries, or an entry is outside 0..9; every
\* other array is accepted.
C4_RefusedIffIllFormed ==
    last.op = "Board" =>
        /\ pc \in {"ready", "failed"}
        /\ pc = "failed" <=> ~WellFormed(array)
        /\ pc = "failed" => (last.ret.kind = "raise" /\ cells = << >>)
        /\ pc = "ready" => (last.ret = None /\ DOMAIN cells = Coords)

\* An array of 9 rows of 9 entries has been refused for a single entry.
C4_Witness ==
    /\ last.op = "Board"
    /\ pc = "failed"
    /\ Len(array) = 9
    /\ \A i \in 1..9 : Len(array[i]) = 9
    /\ Cardinality({co \in Coords : array[co[1]][co[2]] \notin 0..9}) = 1

----------------------------------------------------------------------------
(* C5 *)

\* C5: right after construction, in every unresolved cell the bit of digit
\* v is set exactly when v is not the value of a cell in the cell's row,
\* column or box.
C5_InitialCandidates ==
    Constructed =>
        \A co \in Coords :
            cells[co].value = 0 =>
                \A v \in Numbers :
                    cells[co].candidates[v] <=> ~InAHouseOf(cells, co, v)

\* An unresolved cell has lost a digit that only its box holds, and kept
\* another.
C5_Witness ==
    /\ Constructed
    /\ \E co \in Coords :
          /\ cells[co].value = 0
          /\ \E v \in Numbers : cells[co].candidates[v]
          /\ \E v \in Numbers :
                /\ ~cells[co].candidates[v]
                /\ \A d \in Coords :
                      (Row(d) = Row(co) \/ Column(d) = Column(co)) => cells[d].value # v

----------------------------------------------------------------------------
(* C6 *)

\* The cells outside `group` that lie in a row, in a column or in a box
\* that holds every cell of `group`.
CommonHousePeers(group) ==
    {d \in Coords \ SeqToSet(group) :
        \/ \A i \in 1..Len(group) : Row(group[i]) = Row(d)
        \/ \A i \in 1..Len(group) : Column(group[i]) = Column(d)
        \/ \A i \in 1..Len(group) : Box(group[i]) = Box(d)}

\* C6: getPeerCells(cells) returns, each once, exactly the cells that are
\* not among the input cells and lie in a row, column or box holding ALL
\* input cells; for a single input cell these are its 20 peers.
C6_PeersOfCommonHouses ==
    last.op = "getPeerCells" =>
        /\ SeqToSet(last.ret) = CommonHousePeers(last.args[1])
        /\ Len(last.ret) = Cardinality(CommonHousePeers(last.args[1]))
        /\ Len(last.args[1]) = 1 => Len(last.ret) = 20

\* Two cells of one row in different boxes: the 7 other cells of the row.
C6_Witness ==
    /\ last.op = "getPeerCells"
    /\ Len(last.args[1]) = 2
    /\ Row(last.args[1][1]) = Row(last.args[1][2])
    /\ Box(last.args[1][1]) # Box(last.args[1][2])
    /\ Len(last.ret) = 7

----------------------------------------------------------------------------
(* C7 *)

\* The Move that setCellMove(type, co, value, msg) has returned on board b:
\* SET_VALUE on co first, then one REMOVE_CANDIDATE of value for each peer
\* of co that lists value, and nothing else.
SetsAndClearsPeers(b, move, co, value) ==
    LET rest == SubSeq(move.actions, 2, Len(move.actions))
        listing == {d \in Coords \ {co} : SameHouse(co, d) /\ b[d].candidates[value]}
    IN  /\ move.kind = "move"
        /\ Len(move.actions) >= 1
        /\ move.actions[1] = Action("SET_VALUE", co, value)
        /\ \A i \in 1..Len(rest) :
              rest[i].type = "REMOVE_CANDIDATE" /\ rest[i].candidate = value
        /\ {rest[i].cell : i \in 1..Len(rest)} = listing
        /\ Len(rest) = Cardinality(listing)

\* C7: setCellMove leaves the value, candidates and count of every cell as
\* they were, and the Move it returns sets the target cell and removes the
\* value from exactly the peers that list it, one Action each.
C7_SetCellMoveOnlyBuilds ==
    /\ [][last'.op = "setCellMove" => cells' = cells]_vars
    /\ [](last.op = "setCellMove" =>
            SetsAndClearsPeers(cells, last.ret, last.args[2], last.args[3]))

\* A Move for an unresolved target with peers that list the value and
\* peers that do not.
C7_Witness ==
    /\ last.op = "setCellMove"
    /\ cells[last.args[2]].value = 0
    /\ Len(last.ret.actions) >= 3
    /\ \E d \in Coords \ {last.args[2]} :
          /\ SameHouse(last.args[2], d)
          /\ cells[d].value = 0
          /\ ~cells[d].candidates[last.args[3]]

----------------------------------------------------------------------------
(* C8 *)

\* The order of the claim: naked single, hidden single, full house, locked
\* candidates 1, locked candidates 2, naked subsets, hidden subsets; with
\* the MoveTypes of each strategy.
C8_Priority ==
    <<[find |-> "findNakedSingles", types |-> {"NAKED_SINGLE"}],
      [find |-> "findHiddenSingles", types |-> {"HIDDEN_SINGLE"}],
      [find |-> "findFullHouses", types |-> {"FULL_HOUSE"}],
      [find |-> "findLockedCandidatesType1", types |-> {"LOCKED_CANDIDATES1"}],
      [find |-> "findLockedCandidatesType2", types |-> {"LOCKED_CANDIDATES2"}],
      [find |-> "findNakedDisjointSets",
       types |-> {"NAKED_PAIR", "NAKED_TRIPLE", "NAKED_QUAD",
                  "LOCKED_PAIR", "LOCKED_TRIPLE", "LOCKED_QUAD"}],
      [find |-> "findHiddenDisjointSets",
       types |-> {"HIDDEN_PAIR", "HIDDEN_TRIPLE", "HIDDEN_QUAD"}]>>

\* C8: on an unsolved board next() returns the Move of the first strategy
\* of that order that finds one: the Move of a strategy is returned only
\* when every strategy before it finds none on the current board.
C8_HighestPriorityMove ==
    (pc = "ready" /\ last.op = "next" /\ ~validateBoard(cells)
     /\ last.ret.kind = "move") =>
        \E i \in 1..Len(C8_Priority) :
            /\ last.ret.type \in C8_Priority[i].types
            /\ last.ret = Find(cells, C8_Priority[i].find, TRUE)
            /\ \A j \in 1..(i - 1) : Find(cells, C8_Priority[j].find, TRUE) = None

\* next() has returned a Move of the last strategy.
C8_Witness ==
    /\ pc = "ready"
    /\ last.op = "next"
    /\ last.ret.kind = "move"
    /\ last.ret.type \in C8_Priority[7].types

----------------------------------------------------------------------------
(* C9 *)

\* C9: next() and every find function, with single=True and single=False,
\* leave the value, candidates and count of every cell as they were, whether
\* the call returns a Move, returns None or raises.
C9_FindLeavesBoard == [][last'.op \in {"next", "find"} => cells' = cells]_vars

\* A find function has raised on an existing board.
C9_Witness ==
    /\ pc = "called"
    /\ last.op = "find"
    /\ last.ret.kind = "raise"
    /\ \E co \in Coords : cells[co].value = 0

----------------------------------------------------------------------------
(* C10 *)

IsPrefix(s, t) == Len(s) <= Len(t) /\ SubSeq(t, 1, Len(s)) = s

----------------------------------------------------------------------------
(* C11 *)

\* The unresolved cells plus the candidate bits that are set: what is left
\* to do on a board.
Measure(b) ==
    Cardinality({co \in Coords : b[co].value = 0})
    + Cardinality({q \in Coords \X Numbers : b[q[1]].candidates[q[2]]})

\* C11: solve() terminates on every array that construction accepts: every
\* iteration of its loop either ends it (it returns, or leaves with
\* NoMovesFound or another exception) or executes a Move that lowers the
\* number of unresolved cells plus set candidate bits, which is never
\* negative; so it cannot loop forever.
C11_SolveTerminates ==
    [][pc = "solving"
         => \/ pc' \in {"returned", "stuck", "error"}
            \/ /\ pc' = "solving"
               /\ Len(executed') = Len(executed) + 1
               /\ Measure(cells') < Measure(cells)]_vars

\* solve() has returned after a long run of Moves.
C11_Witness ==
    /\ pc = "returned"
    /\ last.op = "solve"
    /\ Len(executed) >= 40


----------------------------------------------------------------------------
(* C12 *)

\* None of the seven strategies produces a Move on board b.
NoStrategyMoves(b) ==
    \A i \in 1..Len(_executionOrder) : Find(b, _executionOrder[i], TRUE).kind # "move"

\* C12: whenever solve() comes to a board that is unsolved and on which
\* none of the seven strategies produces a Move, it leaves with NoMovesFound
\* and with no other error, and the board is as the last executed Move left
\* it: no value, candidate or count changes while the stuck state is found.
C12_StuckIsReported ==
    [][pc = "solving" /\ ~validateBoard(cells) /\ NoStrategyMoves(cells)
         => /\ pc' = "stuck"
            /\ last'.ret = Raise("NoMovesFound")
            /\ cells' = cells
            /\ executed' = executed]_vars


----------------------------------------------------------------------------
(* C13 *)

\* Every row, column and box of the grid `value` (cell -> number) holds
\* exactly the values 1..9.
HousesHoldAll(value) ==
    \A i \in 1..Size :
        /\ {value[co] : co \in {c \in Coords : Row(c) = i}} = Numbers
        /\ {value[co] : co \in {c \in Coords : Column(c) = i}} = Numbers
        /\ {value[co] : co \in {c \in Coords : Box(c) = i}} = Numbers

ValuesOf(b) == [co \in Coords |-> b[co].value]

GivenValues(arr) == [co \in Coords |-> arr[co[1]][co[2]]]

\* C13: what solve() returns is the value of validateBoard on the final
\* board, i.e. true iff every row, column and box holds exactly the values
\* 1..9; on an array that is already fully and validly solved solve()
\* returns true and executes no Move.
C13_SolveReturnsValidity ==
    /\ pc = "returned"
         => /\ last.op = "solve"
            /\ last.ret \in BOOLEAN
            /\ last.ret = HousesHoldAll(ValuesOf(cells))
    /\ InSolve /\ HousesHoldAll(GivenValues(array))
         => /\ pc \in {"solving", "returned"}
            /\ executed = << >>
            /\ pc = "returned" => last.ret = TRUE

\* solve() has returned true on a solved array without executing a Move.
C13_Witness ==
    /\ pc = "returned"
    /\ last.ret = TRUE
    /\ HousesHoldAll(GivenValues(array))
    /\ executed = << >>


----------------------------------------------------------------------------
(* C14 *)

\* A cell resolved to v: no candidate, count 0.
Resolved(v) == [value |-> v, candidates |-> [n \in Numbers |-> FALSE], count |-> 0]

\* C14: setting a Cell's value to v succeeds only for 1 <= v <= 9 and then
\* leaves the cell with value v, no candidate and count 0; for v outside
\* 1..9 (0 included) it fails with an error and leaves the cell unchanged.
C14_SetValueChecksRange ==
    [][last'.op = "setValue"
         => LET co == last'.args[1]
                v == last'.args[2]
            IN  IF v \in Numbers
                THEN /\ last'.ret.kind = "none"
                     /\ cells' = [cells EXCEPT ![co] = Resolved(v)]
                ELSE /\ last'.ret.kind = "raise"
                     /\ cells' = cells]_vars


----------------------------------------------------------------------------
(* C15 *)

\* The cells that the ADD_CANDIDATE and REMOVE_CANDIDATE actions of a Move
\* toggle a candidate of.
ToggledBy(move) ==
    {move.actions[i].cell :
        i \in {j \in 1..Len(move.actions) :
                  move.actions[j].type \in {"ADD_CANDIDATE", "REMOVE_CANDIDATE"}}}

\* C15: toggling a candidate of a Cell whose value is nonzero is rejected or
\* ignored: afterwards the value is unchanged, all nine candidate bits are
\* false and count is 0; and no operation of the program applies a
\* candidate toggle to a cell with nonzero value, neither construction nor
\* a Move that a strategy returns.
C15_NoToggleOfResolvedCell ==
    /\ [][last'.op = "setItem" /\ cells[last'.args[1]].value # 0
            => cells'[last'.args[1]] = Resolved(cells[last'.args[1]].value)]_vars
    /\ [](Constructed
            => \A q \in InitialToggles(_convertDataToCells(array)) :
                  cells[q[1]].value = 0)
    /\ [](pc = "ready" /\ last.op = "next" /\ last.ret.kind = "move"
            => \A co \in ToggledBy(last.ret) : cells[co].value = 0)


----------------------------------------------------------------------------
(* C16 *)

\* The candidates of a cell.
CandidatesOf(cell) == {n \in Numbers : cell.candidates[n]}

\* C16: when removing a candidate from an unresolved Cell leaves exactly one
\* candidate true, the Cell is resolved to that candidate at once: value is
\* that number, all candidate bits are false and count is 0.
C16_LastCandidateResolves ==
    [][/\ last'.op = "setItem"
       /\ last'.ret.kind = "none"
       /\ last'.args[3] = FALSE
       /\ cells[last'.args[1]].value = 0
       /\ last'.args[2] \in CandidatesOf(cells[last'.args[1]])
       /\ Cardinality(CandidatesOf(cells[last'.args[1]])) = 2
         => \E n \in CandidatesOf(cells[last'.args[1]]) \ {last'.args[2]} :
               cells'[last'.args[1]] = Resolved(n)]_vars

----------------------------------------------------------------------------
(* C17 *)

\* C17: assigning a value to a Cell that already holds a different nonzero
\* value fails with CellValueContradiction, assigning the value it already
\* holds is a no-op, and assigning to an unresolved Cell a value whose
\* candidate bit is false fails with CellValueNotPossible; in every failing
\* case the Cell's value, candidates and count are unchanged.
C17_ValueAssignmentGuards ==
    [][last'.op = "setValue" /\ last'.args[2] \in Numbers
         => LET cell == cells[last'.args[1]]
                v == last'.args[2]
            IN  CASE cell.value # 0 /\ cell.value # v ->
                        /\ last'.ret.kind = "raise"
                        /\ last'.ret.exc = "CellValueContradiction"
                        /\ cells' = cells
                  [] cell.value = v ->
                        /\ last'.ret.kind = "none"
                        /\ cells' = cells
                  [] cell.value = 0 /\ ~cell.candidates[v] ->
                        /\ last'.ret.kind = "raise"
                        /\ last'.ret.exc = "CellValueNotPossible"
                        /\ cells' = cells
                  [] OTHER -> last'.ret.kind = "none"]_vars


----------------------------------------------------------------------------
(* C18 *)

\* Cell c comes before cell d in row-major order.
RowMajorBefore(c, d) ==
    Row(c) < Row(d) \/ (Row(c) = Row(d) /\ Column(c) < Column(d))

\* The cells with exactly one true candidate.
SingleCandidateCells(b) == {co \in Coords : Cardinality(CandidatesOf(b[co])) = 1}

\* The empty cells of board b.
EmptyCells(b) == {co \in Coords : b[co].value = 0}

\* Scenario A: co is the only empty cell of b, and its row, its column and
\* its box each hold the eight values other than m.
LastCellMissing(b, co, m) ==
    /\ EmptyCells(b) = {co}
    /\ \A d \in Coords \ {co} :
          SameHouse(co, d) => b[d].value # m
    /\ {b[d].value : d \in {e \in Coords \ {co} : Row(e) = Row(co)}} = Numbers \ {m}
    /\ {b[d].value : d \in {e \in Coords \ {co} : Column(e) = Column(co)}} = Numbers \ {m}
    /\ {b[d].value : d \in {e \in Coords \ {co} : Box(e) = Box(co)}} = Numbers \ {m}

\* C18: findNakedSingles(single=True) returns a Move if and only if some
\* cell has exactly one true candidate; the Move is of type NAKED_SINGLE,
\* targets the first such cell in row-major order, sets it to its single
\* candidate and removes that value from every peer listing it.  On a board
\* with one empty cell whose row, column and box hold the other eight
\* values, next() returns a Move setting that cell to the missing value.
C18_NakedSingleFirstMatch ==
    /\ last.op = "find" /\ last.args = <<"findNakedSingles", TRUE>>
         => LET singles == SingleCandidateCells(cells)
            IN  IF singles = {}
                THEN last.ret = None
                ELSE LET co == CHOOSE c \in singles :
                                  \A d \in singles \ {c} : RowMajorBefore(c, d)
                         value == CHOOSE n \in Numbers : cells[co].candidates[n]
                     IN  /\ last.ret.kind = "move"
                         /\ last.ret.type = "NAKED_SINGLE"
                         /\ SetsAndClearsPeers(cells, last.ret, co, value)
    /\ last.op = "next"
         => \A co \in Coords, m \in Numbers :
               LastCellMissing(cells, co, m)
                  => /\ last.ret.kind = "move"
                     /\ last.ret.actions[1] = Action("SET_VALUE", co, m)

\* findNakedSingles had several cells with one candidate to choose from,
\* and other unresolved cells before the one it chose.
C18_Witness ==
    /\ last.op = "find" /\ last.args = <<"findNakedSingles", TRUE>>
    /\ last.ret.kind = "move"
    /\ Cardinality(SingleCandidateCells(cells)) >= 2
    /\ \E d \in EmptyCells(cells) : RowMajorBefore(d, last.ret.actions[1].cell)


----------------------------------------------------------------------------
(* C19 *)

\* The cells of the house of the given type ("row", "column", "box") and
\* index.
CellsOfHouse(type, i) ==
    CASE type = "row" -> {co \in Coords : Row(co) = i}
      [] type = "column" -> {co \in Coords : Column(co) = i}
      [] type = "box" -> {co \in Coords : Box(co) = i}

\* Where the pair of a house and a value comes in the scan: rows 1-9, then
\* columns 1-9, then boxes 1-9, and within a house the values 1..9.
ScanRank(type, i, v) ==
    (CASE type = "row" -> 0 [] type = "column" -> 1 [] type = "box" -> 2) * Size * Size
    + (i - 1) * Size + v

\* The cells of the house that list v as a candidate.
Listing(b, type, i, v) == {co \in CellsOfHouse(type, i) : b[co].candidates[v]}

\* The (house, value) pairs of board b in which an unfinished house has
\* the value as a candidate of exactly one of its cells.
HiddenSingles(b) ==
    {q \in {"row", "column", "box"} \X Numbers \X Numbers :
        /\ \E co \in CellsOfHouse(q[1], q[2]) : b[co].value = 0
        /\ Cardinality(Listing(b, q[1], q[2], q[3])) = 1}

\* C19: findHiddenSingles(single=True) returns a Move if and only if some
\* unfinished house has a value v that is a candidate of exactly one of its
\* cells; the Move sets that cell to v, for the first such pair of a house
\* and a value in the scan of the rows 1-9, then the columns 1-9, then the
\* boxes 1-9, with v = 1..9 in order within a house.
C19_HiddenSingleFirstMatch ==
    last.op = "find" /\ last.args = <<"findHiddenSingles", TRUE>>
      => LET found == HiddenSingles(cells)
         IN  IF found = {}
             THEN last.ret = None
             ELSE LET q == CHOOSE x \in found :
                              \A y \in found :
                                 ScanRank(x[1], x[2], x[3]) <= ScanRank(y[1], y[2], y[3])
                      co == CHOOSE c \in Listing(cells, q[1], q[2], q[3]) : TRUE
                  IN  /\ last.ret.kind = "move"
                      /\ last.ret.type = "HIDDEN_SINGLE"
                      /\ SetsAndClearsPeers(cells, last.ret, co, q[3])

\* findHiddenSingles has returned a Move found in a column or a box, on a
\* board with several hidden singles, for a cell with other candidates.
C19_Witness ==
    /\ last.op = "find" /\ last.args = <<"findHiddenSingles", TRUE>>
    /\ last.ret.kind = "move"
    /\ Cardinality(HiddenSingles(cells)) >= 2
    /\ \A q \in HiddenSingles(cells) : q[1] # "row"
    /\ Cardinality(CandidatesOf(cells[last.ret.actions[1].cell])) >= 2


----------------------------------------------------------------------------
(* C20 *)

HouseTypes == {"row", "column", "box"}

\* The unresolved cells of a house.
UnresolvedIn(b, type, i) == {co \in CellsOfHouse(type, i) : b[co].value = 0}

\* The houses with exactly one unresolved cell.
OneLeft(b) ==
    {h \in HouseTypes \X Numbers : Cardinality(UnresolvedIn(b, h[1], h[2])) = 1}

\* The values of 1..9 not yet present in a house.
MissingIn(b, type, i) == Numbers \ {b[co].value : co \in CellsOfHouse(type, i)}

\* The Move sets the one unresolved cell of house h to a value not yet
\* present in it.
FillsHouse(b, move, h) ==
    /\ move.kind = "move"
    /\ move.type = "FULL_HOUSE"
    /\ move.actions[1].type = "SET_VALUE"
    /\ move.actions[1].cell \in UnresolvedIn(b, h[1], h[2])
    /\ move.actions[1].candidate \in MissingIn(b, h[1], h[2])

\* Where house h comes among the houses with one unresolved cell, scanning
\* rows, columns, boxes.
PlaceOf(b, h) ==
    1 + Cardinality({g \in OneLeft(b) : ScanRank(g[1], g[2], 1) < ScanRank(h[1], h[2], 1)})

\* C20: findFullHouses produces, for every house with exactly one unresolved
\* cell, a Move setting that cell to the one value of 1..9 not yet present
\* in the house, whatever the candidate bits of the cell are (several, one
\* or none), and no Move for a house with no or with several unresolved
\* cells: with single=False one Move per such house in the order rows,
\* columns, boxes, with single=True the Move of the first such house or None.
C20_FullHouseFillsLastCell ==
    last.op = "find" /\ last.args[1] = "findFullHouses"
      => IF last.args[2]
         THEN IF OneLeft(cells) = {}
              THEN last.ret = None
              ELSE \E h \in OneLeft(cells) : /\ PlaceOf(cells, h) = 1
                                             /\ FillsHouse(cells, last.ret, h)
         ELSE /\ last.ret.kind = "list"
              /\ Len(last.ret.moves) = Cardinality(OneLeft(cells))
              /\ \A h \in OneLeft(cells) :
                    FillsHouse(cells, last.ret.moves[PlaceOf(cells, h)], h)


----------------------------------------------------------------------------
(* C21 *)

\* The Moves that a call of a find function has returned: the Move of
\* single=True, the list of single=False, nothing otherwise.
MovesOf(ret) ==
    CASE ret.kind = "move" -> {ret}
      [] ret.kind = "list" -> {ret.moves[i] : i \in 1..Len(ret.moves)}
      [] OTHER -> {}

\* The Move consists of REMOVE_CANDIDATE actions of value v, one for each
\* cell of `targets` and no other.
RemovesFrom(move, v, targets) ==
    /\ \A i \in 1..Len(move.actions) :
          /\ move.actions[i].type = "REMOVE_CANDIDATE"
          /\ move.actions[i].candidate = v
    /\ {move.actions[i].cell : i \in 1..Len(move.actions)} = targets
    /\ Len(move.actions) = Cardinality(targets)

\* Candidate v is locked between box i and the line (row or column) j: the
\* cells of `from` that list v all lie in `into` as well.
LockedFor(b, v, from, into) ==
    /\ \E co \in from : b[co].value = 0
    /\ \A co \in from : b[co].candidates[v] => co \in into

\* C21: a locked-candidates Move for candidate v removes v from exactly the
\* cells that list v in the crossing house outside the intersection and
\* from no other cell: type 1 (the v-cells of an unfinished box all lie in
\* one row or column) from the rest of that line outside the box, type 2
\* (the v-cells of an unfinished row or column all lie in one box) from the
\* rest of that box outside the line; no Move is produced when there is no
\* such cell.
C21_LockedCandidatesRemoveOutside ==
    last.op = "find"
    /\ last.args[1] \in {"findLockedCandidatesType1", "findLockedCandidatesType2"}
      => \A move \in MovesOf(last.ret) :
            /\ move.type = IF last.args[1] = "findLockedCandidatesType1"
                           THEN "LOCKED_CANDIDATES1" ELSE "LOCKED_CANDIDATES2"
            /\ Len(move.actions) >= 1
            /\ \E v \in Numbers, i \in Numbers, line \in {"row", "column"}, j \in Numbers :
                  LET box == CellsOfHouse("box", i)
                      ln == CellsOfHouse(line, j)
                  IN  IF move.type = "LOCKED_CANDIDATES1"
                      THEN /\ LockedFor(cells, v, box, ln)
                           /\ RemovesFrom(move, v,
                                  {co \in ln \ box : cells[co].candidates[v]})
                      ELSE /\ LockedFor(cells, v, ln, box)
                           /\ RemovesFrom(move, v,
                                  {co \in box \ ln : cells[co].candidates[v]})

\* findLockedCandidatesType2 has returned several Moves at once.
C21_Witness ==
    /\ last.op = "find"
    /\ last.args = <<"findLockedCandidatesType2", FALSE>>
    /\ last.ret.kind = "list"
    /\ Len(last.ret.moves) >= 2


----------------------------------------------------------------------------
(* C22 *)

\* The cells outside the set S that share a row, a column or a box with
\* every cell of S.
PeersOfAll(S) ==
    {d \in Coords \ S :
        \/ \A c \in S : Row(c) = Row(d)
        \/ \A c \in S : Column(c) = Column(d)
        \/ \A c \in S : Box(c) = Box(d)}

\* The values that some cell of S lists.
UnionOfCandidates(b, S) == UNION {CandidatesOf(b[c]) : c \in S}

\* What a naked set S lets remove: its values from the cells sharing a
\* house with all its members, as pairs of a cell and a value it lists.
NakedTargets(b, S) ==
    {q \in PeersOfAll(S) \X UnionOfCandidates(b, S) : b[q[1]].candidates[q[2]]}

\* The sets of k unresolved cells of one house, k in 2..4, whose candidates
\* are k values in all, some of which a cell sharing a house with all of
\* them lists.
NakedSets(b) ==
    UNION {{S \in SUBSET UnresolvedIn(b, h[1], h[2]) :
               /\ Cardinality(S) \in 2..4
               /\ Cardinality(UnionOfCandidates(b, S)) = Cardinality(S)
               /\ NakedTargets(b, S) # {}} : h \in HouseTypes \X Numbers}

\* The (cell, value) pairs of the actions of a Move.
ActionPairs(move) ==
    {<<move.actions[i].cell, move.actions[i].candidate>> : i \in 1..Len(move.actions)}

\* The Move removes exactly the pairs of `targets`, each once.
RemovesPairs(move, targets) ==
    /\ \A i \in 1..Len(move.actions) : move.actions[i].type = "REMOVE_CANDIDATE"
    /\ ActionPairs(move) = targets
    /\ Len(move.actions) = Cardinality(targets)

\* C22: findNakedDisjointSets returns a Move whenever some unfinished house
\* contains k unresolved cells, k in {2,3,4}, whose candidates are exactly k
\* values in all and at least one other cell sharing a house with all k
\* cells lists one of these values; a returned Move removes exactly those k
\* values from exactly the cells that share a house with all members of the
\* combination (for a pair sharing only a row: from the other cells of the
\* row and from no column or box peer outside it).
C22_NakedSetsRemoveFromCommonPeers ==
    last.op = "find" /\ last.args[1] = "findNakedDisjointSets"
      => LET sets == NakedSets(cells)
         IN  /\ sets # {} => MovesOf(last.ret) # {}
             /\ \A move \in MovesOf(last.ret) :
                   \E S \in sets :
                      /\ RemovesPairs(move, NakedTargets(cells, S))
                      /\ move.type \in {_NAKED_TUPLE_TYPES[Cardinality(S)],
                                        _LOCKED_TUPLE_TYPES[Cardinality(S)]}

\* findNakedDisjointSets has returned the Move of a pair of cells that
\* share a row or a column only.
C22_Witness ==
    /\ last.op = "find" /\ last.args = <<"findNakedDisjointSets", TRUE>>
    /\ last.ret.kind = "move"
    /\ last.ret.type = "NAKED_PAIR"


----------------------------------------------------------------------------
(* C23 *)

\* The cells of a house where one of the values of V is possible.
PossibleCells(b, h, V) ==
    {co \in UnresolvedIn(b, h[1], h[2]) : CandidatesOf(b[co]) \cap V # {}}

\* What a hidden set of the values V in house h lets remove: every other
\* candidate of the cells where the values are possible.
HiddenTargets(b, h, V) ==
    {q \in PossibleCells(b, h, V) \X (Numbers \ V) : b[q[1]].candidates[q[2]]}

\* The pairs of an unfinished house and k of its not yet placed values, k
\* in 2..4, that are possible in exactly k cells of the house, one of which
\* lists some other candidate.
HiddenSets(b) ==
    UNION {{<<h, V>> : V \in {X \in SUBSET MissingIn(b, h[1], h[2]) :
                                /\ Cardinality(X) \in 2..4
                                /\ Cardinality(PossibleCells(b, h, X)) = Cardinality(X)
                                /\ HiddenTargets(b, h, X) # {}}} :
           h \in {g \in HouseTypes \X Numbers : UnresolvedIn(b, g[1], g[2]) # {}}}

----------------------------------------------------------------------------
(* C24 *)

\* The number of resolved cells of a board.
ResolvedCount(b) == Cardinality({co \in Coords : b[co].value # 0})

\* The number of candidate bits that are true over the board.
TrueBits(b) == Cardinality({q \in Coords \X Numbers : b[q[1]].candidates[q[2]]})

\* C24: across every Move that solve() executes, the number of resolved
\* cells never decreases and the number of true candidate bits over the
\* board never increases, and at least one of the two changes strictly.
C24_MovesMakeProgress ==
    [][pc = "solving" /\ Len(executed') > Len(executed)
         => /\ ResolvedCount(cells') >= ResolvedCount(cells)
            /\ TrueBits(cells') <= TrueBits(cells)
            /\ \/ ResolvedCount(cells') > ResolvedCount(cells)
               \/ TrueBits(cells') < TrueBits(cells)]_vars

\* solve() has just executed a Move that resolves no cell.
C24_Witness ==
    /\ pc = "solving"
    /\ executed # << >>
    /\ executed[Len(executed)][1] \notin {"NAKED_SINGLE", "HIDDEN_SINGLE", "FULL_HOUSE"}


----------------------------------------------------------------------------
(* C25 *)

\* The Moves that the last call (next(), a find function, findCurrentMoves
\* or setCellMove)
\* has produced.
Produced ==
    IF last.op \in {"next", "find", "findCurrentMoves", "setCellMove"}
    THEN MovesOf(last.ret)
    ELSE {}

\* No (cell, candidate) pair is removed twice within the Move.
NoRepeatedRemoval(move) ==
    \A i, j \in 1..Len(move.actions) :
        (/\ i # j
         /\ move.actions[i].type = "REMOVE_CANDIDATE"
         /\ move.actions[j].type = "REMOVE_CANDIDATE"
         /\ move.actions[i].cell = move.actions[j].cell)
            => move.actions[i].candidate # move.actions[j].candidate

\* Every remove-candidate Action of the Move targets an unresolved cell of
\* board b whose bit for the candidate is true.
RemovalsEffective(b, move) ==
    \A i \in 1..Len(move.actions) :
        move.actions[i].type = "REMOVE_CANDIDATE"
          => /\ b[move.actions[i].cell].value = 0
             /\ b[move.actions[i].cell].candidates[move.actions[i].candidate]

\* Every set-value Action of the Move targets a cell of b whose value is 0.
SetsEmptyCell(b, move) ==
    \A i \in 1..Len(move.actions) :
        move.actions[i].type = "SET_VALUE" => b[move.actions[i].cell].value = 0

\* C25 as claimed: every Move produced by a strategy or by setCellMove is
\* non-empty, its set-value Action (if any) targets a cell whose value is
\* 0, every remove-candidate Action targets an unresolved cell whose bit is
\* true, and no (cell, candidate) pair is removed twice.
C25_EveryMoveEffective ==
    \A move \in Produced :
        /\ Len(move.actions) >= 1
        /\ SetsEmptyCell(cells, move)
        /\ RemovalsEffective(cells, move)
        /\ NoRepeatedRemoval(move)

\* C25 amended: every Move produced by a strategy or by setCellMove is
\* non-empty, consists of set-value and remove-candidate Actions, every
\* remove-candidate Action targets an unresolved cell whose bit is true and
\* no pair is removed twice; the set-value Action of a strategy's Move
\* targets a cell whose value is 0, while setCellMove builds the set-value
\* Action on the cell it is called on without looking at its value, so its
\* target has value 0 exactly when the caller names an unresolved cell.
C25_MovesEffectiveButForSetCellMoveTarget ==
    \A move \in Produced :
        /\ Len(move.actions) >= 1
        /\ \A i \in 1..Len(move.actions) :
              move.actions[i].type \in {"SET_VALUE", "REMOVE_CANDIDATE"}
        /\ RemovalsEffective(cells, move)
        /\ NoRepeatedRemoval(move)
        /\ IF last.op = "setCellMove"
           THEN /\ move.actions[1] = Action("SET_VALUE", last.args[2], last.args[3])
                /\ \A i \in 2..Len(move.actions) : move.actions[i].type # "SET_VALUE"
           ELSE SetsEmptyCell(cells, move)

\* setCellMove has been called on a cell that holds a value and has built
\* a Move that sets it and clears peers.
C25_Witness ==
    /\ last.op = "setCellMove"
    /\ cells[last.args[2]].value # 0
    /\ last.ret.kind = "move"
    /\ Len(last.ret.actions) >= 2


----------------------------------------------------------------------------
(* C26 *)

\* First-match result `one` agrees with enumerate-all result `all`: `all` is
\* a list, `one` is None iff the list is empty and otherwise `one` is a
\* Move equal (type, actions, message) to the first element.
Agree(one, all) ==
    /\ all.kind = "list"
    /\ one.kind \in {"none", "move"}
    /\ one = None <=> all.moves = << >>
    /\ one # None => one = all.moves[1]

\* The other mode's result for the find call that has just returned.
OtherMode == Find(cells, last.args[1], ~last.args[2])

\* C26: for each strategy and every board, single=True agrees with
\* single=False (None iff the list is empty, otherwise the first element of
\* the list), and next() on an unsolved board is the first element of
\* findCurrentMoves(), or None when that list is empty.
C26_FirstMatchAgreesWithEnumerateAll ==
    /\ pc = "called" /\ last.op = "find"
          => IF last.args[2] THEN Agree(last.ret, OtherMode)
                            ELSE Agree(OtherMode, last.ret)
    /\ pc = "called" /\ last.op = "findCurrentMoves" /\ ~validateBoard(cells)
          => Agree(nextFrom(cells, _executionOrder, 1), last.ret)


----------------------------------------------------------------------------
(* C27 *)

\* Candidate v of the unresolved cell at c is listed although a cell sharing
\* a house with c holds v.
StaleCandidate(b, c, v) ==
    /\ b[c].value = 0
    /\ b[c].candidates[v]
    /\ \E d \in Coords \ {c} : SameHouse(c, d) /\ b[d].value = v

\* C27: in every state reachable from construction by executing the Moves
\* that next() returns, a true candidate v of an unresolved cell is the value
\* of no cell sharing a row, column or box with it, and every resolved cell
\* has all nine candidate bits false.
C27_CandidatesConsistent ==
    BoardExists
      => /\ \A c \in Coords, v \in Numbers : ~StaleCandidate(cells, c, v)
         /\ \A c \in Coords :
               cells[c].value # 0 => \A v \in Numbers : ~cells[c].candidates[v]

\* Moves have been executed, the last of them an elimination by a set
\* strategy, and cells are still unresolved with candidates left.
C27_Witness ==
    /\ BoardExists
    /\ Len(executed) >= 2
    /\ executed[Len(executed)][1] \notin {"NAKED_SINGLE", "HIDDEN_SINGLE", "FULL_HOUSE"}
    /\ \E c \in Coords, v \in Numbers : cells[c].value = 0 /\ cells[c].candidates[v]


----------------------------------------------------------------------------
(* C28 *)

\* The houses of b whose one unresolved cell still lists a candidate,
\* with that cell.
LastCellsWithCandidate(b) ==
    {co \in Coords :
        /\ \E h \in OneLeft(b) : co \in UnresolvedIn(b, h[1], h[2])
        /\ CandidatesOf(b[co]) # {}}

\* C28: on a board constructed from an array with no value repeated in a
\* house, next() never returns a Move of type FULL_HOUSE, neither when it
\* is called by hand nor inside solve(): whenever a house has exactly one
\* unresolved cell and that cell lists a candidate, the cell has exactly one
\* candidate and the naked-single strategy, which comes first, returns a
\* Move.
C28_FullHouseNeverSelected ==
    BoardExists /\ NoDuplicatesInArray(array)
      => /\ last.op = "next" /\ last.ret.kind = "move"
               => last.ret.type # "FULL_HOUSE"
         /\ \A i \in 1..Len(executed) : executed[i][1] # "FULL_HOUSE"
         /\ \A co \in LastCellsWithCandidate(cells) :
               /\ Cardinality(CandidatesOf(cells[co])) = 1
               /\ cells[co].count = 1
         /\ LastCellsWithCandidate(cells) # {}
               => /\ findNakedSingles(cells, TRUE).kind = "move"
                  /\ findNakedSingles(cells, TRUE).type = "NAKED_SINGLE"

\* next() has returned a naked single on a board where a house has one
\* unresolved cell left that lists a candidate.
C28_Witness ==
    /\ BoardExists /\ NoDuplicatesInArray(array)
    /\ LastCellsWithCandidate(cells) # {}
    /\ last.op = "next"
    /\ last.ret.kind = "move"
    /\ last.ret.type = "NAKED_SINGLE"


----------------------------------------------------------------------------
(* C29 *)

\* C29: solve() never returns false: the step on which solve() returns
\* starts from a board on which validateBoard already holds and leaves it
\* as it is, the result is true, and every row, column and box of the
\* final board holds exactly 1..9.
C29_SolveNeverReturnsFalse ==
    [][pc = "solving" /\ pc' = "returned"
         => /\ validateBoard(cells)
            /\ cells' = cells
            /\ last'.op = "solve"
            /\ last'.ret = TRUE
            /\ HousesHoldAll(ValuesOf(cells'))]_vars

\* solve() has returned after executing Moves on an array that was not
\* solved.
C29_Witness ==
    /\ pc = "returned"
    /\ last.op = "solve"
    /\ Len(executed) >= 1
    /\ ~HousesHoldAll(GivenValues(array))


----------------------------------------------------------------------------
(* C30 *)

\* C30: next() has three outcomes only, on every board reachable from an
\* accepted array, boards with an unresolved cell without candidates
\* included: it returns a Move, returns None, or signals with StopIteration
\* that the board is solved; it never fails with another error.
C30_NextHasThreeOutcomes ==
    last.op = "next" => last.ret.kind \in {"move", "none", "stop"}

============================================================================
